---- MODULE Spec2Model ----
(***************************************************************************)
(* Model of predict.py: the prediction entrypoint Predictor.predict, the   *)
(* recursive language detector detect_language, the temporary slice made   *)
(* by extract_audio_segment and the window planner                         *)
(* distribute_segments_equally.                                            *)
(*                                                                         *)
(* Two specifications:                                                     *)
(*   Spec      one predict run, stepped through its external calls         *)
(*   SpecPlan  distribute_segments_equally applied to bounded inputs       *)
(***************************************************************************)
EXTENDS Integers, Sequences, FiniteSets, TLC

(* ------------------------------ bounds --------------------------------- *)

\* longest audio, in whole 30 s windows
MaxWindows == 3
\* largest language_detection_max_tries passed besides the default
MaxTries == 3
\* probabilities are compared only; they are modelled as levels 0..MaxProb
MaxProb == 2
\* planner inputs of SpecPlan
MaxTotal == 9
MaxSeg == 4
MaxIter == 5

(* ------------------------- program constants --------------------------- *)

segments_duration_ms == 30000
DefaultMaxTries == 5
DefaultMinProb == 0

(* ------------------------------ inputs --------------------------------- *)

None == "None"
Languages == {"en", "xx"}
\* "en" has an alignment model (DEFAULT_ALIGN_MODELS_TORCH / _HF), "xx" has none
DEFAULT_ALIGN_MODELS == {"en"}

Remainders == {0, 1, segments_duration_ms - 1}
\* len(AudioSegment) of the input: positive durations, on and off the
\* window grid, including clips shorter than one window
Durations == {w * segments_duration_ms + r : w \in 0..MaxWindows, r \in Remainders} \ {0}
\* language_detection_max_tries as a caller passes it: a positive try count
TriesInputs == (1..MaxTries) \cup {DefaultMaxTries}
Probs == 0..MaxProb
MinProbs == 0..(MaxProb + 1)

PlanTotals == ((-1)..MaxTotal) \cup {100000}
PlanSegs == ((-1)..MaxSeg) \cup {30000}
PlanIters == (-1)..MaxIter

(* ------------------------------ helpers -------------------------------- *)

Min(a, b) == IF a <= b THEN a ELSE b

Last(s) == s[Len(s)]

\* Python's // (floor division) for a positive divisor
FloorDiv(a, b) == a \div b

(* ------------------- distribute_segments_equally ----------------------- *)

\* variant: the final offset is not forced to the end of the audio
distribute_no_end_alignment(total_duration, segments_duration, iterations) ==
    LET available_duration == total_duration - segments_duration
        spacing == IF iterations > 1
                   THEN FloorDiv(available_duration, iterations - 1)
                   ELSE 0
    IN  [j \in 1..iterations |-> (j - 1) * spacing]

\* variant: the final offset is forced for a single window too
distribute_always_end_aligned(total_duration, segments_duration, iterations) ==
    LET available_duration == total_duration - segments_duration
        spacing == IF iterations > 1
                   THEN FloorDiv(available_duration, iterations - 1)
                   ELSE 0
        start_times == [j \in 1..iterations |-> (j - 1) * spacing]
    IN  IF iterations > 0
        THEN [start_times EXCEPT ![iterations] = total_duration - segments_duration]
        ELSE start_times

\* variant: the spacing is rounded up instead of down
distribute_ceil_spacing(total_duration, segments_duration, iterations) ==
    LET available_duration == total_duration - segments_duration
        spacing == IF iterations > 1
                   THEN -FloorDiv(-available_duration, iterations - 1)
                   ELSE 0
        start_times == [j \in 1..iterations |-> (j - 1) * spacing]
    IN  IF iterations > 1
        THEN [start_times EXCEPT ![iterations] = total_duration - segments_duration]
        ELSE start_times

distribute_segments_equally(total_duration, segments_duration, iterations) ==
    LET available_duration == total_duration - segments_duration
        spacing == IF iterations > 1
                   THEN FloorDiv(available_duration, iterations - 1)
                   ELSE 0
        start_times == [j \in 1..iterations |-> (j - 1) * spacing]
    IN  IF iterations > 1
        THEN [start_times EXCEPT ![iterations] = total_duration - segments_duration]
        ELSE start_times

(* ------------------------------ predict -------------------------------- *)

\* variant: math.ceil in place of math.floor
ClampTriesCeil(max_tries, audio_duration) ==
    Min(max_tries, -FloorDiv(-audio_duration, segments_duration_ms))

\* lines 106-109: min(language_detection_max_tries, floor(duration / 30000))
ClampTries(max_tries, audio_duration) ==
    Min(max_tries, FloorDiv(audio_duration, segments_duration_ms))

\* variant: the threshold must be exceeded, not met
DetectStopStrict(language_probability, min_prob, it, max_tries) ==
    language_probability > min_prob \/ it >= max_tries

\* line 205: the detector's acceptance test
DetectStop(language_probability, min_prob, it, max_tries) ==
    language_probability >= min_prob \/ it >= max_tries

\* variant: diarization is tested before alignment
GateDiarizeFirst(lang, align_out, diar) ==
    IF lang \in DEFAULT_ALIGN_MODELS
    THEN IF diar THEN "diarize_load"
         ELSE IF align_out THEN "align_load"
         ELSE "return"
    ELSE "return"

\* lines 158-162: which optional stage the run enters after transcription
Gate(lang, align_out, diar) ==
    IF lang \in DEFAULT_ALIGN_MODELS
    THEN IF align_out THEN "align_load"
         ELSE IF diar THEN "diarize_load"
         ELSE "return"
    ELSE "return"

(* accelerator memory: a model is a block that is referenced (model),      *)
(* dropped but not yet freed (unreachable), freed into the allocator's     *)
(* cache and still reserved on the device (cache), or gone.                *)
NoModel == [stage |-> "none", n |-> 0]
Block(stage, n) == [stage |-> stage, n |-> n]

\* gc.collect(): frees every unreachable object; its memory goes to the cache
GcCollect(m) == [m EXCEPT !.unreachable = {}, !.cache = m.cache \cup m.unreachable]
\* torch.cuda.empty_cache(): returns the cached blocks to the device
EmptyCache(m) == [m EXCEPT !.cache = {}]
\* del model: drops the reference; the object is freed at once by reference
\* counting (freed = TRUE) or stays as cyclic garbage until a collection
Del(m, freed) ==
    IF m.model = NoModel THEN m
    ELSE IF freed
         THEN [m EXCEPT !.model = NoModel, !.cache = m.cache \cup {m.model}]
         ELSE [m EXCEPT !.model = NoModel, !.unreachable = m.unreachable \cup {m.model}]

\* lines 154-156, 201-203, 279-281, 299-301: gc.collect(); empty_cache(); del
ReleaseModel(m, freed) == Del(EmptyCache(GcCollect(m)), freed)

VARIABLES
    pc,                            \* position of the run
    err,                           \* exception that ended the run
    audio_duration,                \* len() of the input audio, ms
    language,                      \* predict's language (None = detect)
    language_detection_min_prob,
    language_detection_max_tries,  \* rebound by the clamp of line 106
    requested_tries,               \* language_detection_max_tries as passed
    align_output,
    diarization,
    segments_starts,               \* offsets planned at line 111
    iteration,                     \* detect_language's iteration argument
    history,                       \* windows evaluated so far
    detection,                     \* detect_language's return value
    mem,                           \* accelerator memory
    tmpfiles,                      \* temporary slices on disk
    detected_language,             \* result["language"]
    ran,                           \* optional stages entered
    output,                        \* whether ModelOutput was returned
    plan_pc, plan_in, plan_out     \* SpecPlan

vars == <<pc, err, audio_duration, language, language_detection_min_prob,
          language_detection_max_tries, requested_tries, align_output,
          diarization, segments_starts, iteration, history, detection, mem,
          tmpfiles, detected_language, ran, output, plan_pc, plan_in, plan_out>>

predictVars == <<pc, err, audio_duration, language, language_detection_min_prob,
          language_detection_max_tries, requested_tries, align_output,
          diarization, segments_starts, iteration, history, detection, mem,
          tmpfiles, detected_language, ran, output>>

planVars == <<plan_pc, plan_in, plan_out>>

inputVars == <<audio_duration, language_detection_min_prob, requested_tries,
               align_output, diarization>>

NoDetection == [language |-> None, probability |-> -1, iterations |-> 0]

InitPredict ==
    /\ pc = "start"
    /\ err = "none"
    /\ audio_duration \in Durations
    /\ language \in Languages \cup {None}
    /\ language_detection_min_prob \in MinProbs
    /\ requested_tries \in TriesInputs
    /\ language_detection_max_tries = requested_tries
    /\ align_output \in BOOLEAN
    /\ diarization \in BOOLEAN
    /\ segments_starts = <<>>
    /\ iteration = 0
    /\ history = <<>>
    /\ detection = NoDetection
    /\ mem = [model |-> NoModel, unreachable |-> {}, cache |-> {}]
    /\ tmpfiles = {}
    /\ detected_language = None
    /\ ran = {}
    /\ output = FALSE

IdlePlan ==
    /\ plan_pc = "idle"
    /\ plan_in = <<0, 0, 0>>
    /\ plan_out = <<>>

Init == InitPredict /\ IdlePlan

(* ---- predict, lines 102-103: get_audio_duration ---- *)
GetAudioDuration ==
    /\ pc = "start"
    /\ language = None
    /\ pc' = "plan"
    /\ UNCHANGED <<err, language, language_detection_max_tries, segments_starts,
                   iteration, history, detection, mem, tmpfiles,
                   detected_language, ran, output>>
    /\ UNCHANGED inputVars
    /\ UNCHANGED planVars

(* ---- predict, lines 104-117: clamp, plan, call detect_language ---- *)
PredictDetectBranch ==
    /\ pc = "plan"
    /\ LET tries == ClampTries(language_detection_max_tries, audio_duration)
       IN  /\ language_detection_max_tries' = tries
           /\ segments_starts' =
                 distribute_segments_equally(audio_duration, segments_duration_ms, tries)
    /\ iteration' = 1
    /\ pc' = "detect_load"
    /\ UNCHANGED <<err, language, history, detection, mem, tmpfiles,
                   detected_language, ran, output>>
    /\ UNCHANGED inputVars
    /\ UNCHANGED planVars

(* ---- predict, line 102 false: language given ---- *)
PredictGivenLanguage ==
    /\ pc = "start"
    /\ language # None
    /\ pc' = "asr_load"
    /\ UNCHANGED <<err, language, language_detection_max_tries, segments_starts,
                   iteration, history, detection, mem, tmpfiles,
                   detected_language, ran, output>>
    /\ UNCHANGED inputVars
    /\ UNCHANGED planVars

(* ---- detect_language, line 179: whisperx.load_model ---- *)
DetectLoadModel ==
    /\ pc = "detect_load"
    /\ mem' = [mem EXCEPT !.model = Block("detect", iteration)]
    /\ pc' = "detect_index"
    /\ UNCHANGED <<err, language, language_detection_max_tries, segments_starts,
                   iteration, history, detection, tmpfiles, detected_language,
                   ran, output>>
    /\ UNCHANGED inputVars
    /\ UNCHANGED planVars

(* ---- detect_language, line 182: segments_starts[iteration - 1] ---- *)
DetectSelectOffset ==
    /\ pc = "detect_index"
    /\ iteration <= Len(segments_starts)
    /\ pc' = "extract_open"
    /\ UNCHANGED <<err, language, language_detection_max_tries, segments_starts,
                   iteration, history, detection, mem, tmpfiles,
                   detected_language, ran, output>>
    /\ UNCHANGED inputVars
    /\ UNCHANGED planVars

DetectIndexError ==
    /\ pc = "detect_index"
    /\ iteration > Len(segments_starts)
    /\ pc' = "failed"
    /\ err' = "IndexError"
    /\ UNCHANGED <<language, language_detection_max_tries, segments_starts,
                   iteration, history, detection, mem, tmpfiles,
                   detected_language, ran, output>>
    /\ UNCHANGED inputVars
    /\ UNCHANGED planVars

(* ---- extract_audio_segment, lines 217-222: decode and slice ---- *)
ExtractOpen ==
    /\ pc = "extract_open"
    /\ pc' = "extract_export"
    /\ UNCHANGED <<err, language, language_detection_max_tries, segments_starts,
                   iteration, history, detection, mem, tmpfiles,
                   detected_language, ran, output>>
    /\ UNCHANGED inputVars
    /\ UNCHANGED planVars

(* ---- extract_audio_segment, lines 226-230: temp file and export ---- *)
ExtractExport ==
    /\ pc = "extract_export"
    /\ tmpfiles' = tmpfiles \cup {iteration}
    /\ pc' = "load_segment"
    /\ UNCHANGED <<err, language, language_detection_max_tries, segments_starts,
                   iteration, history, detection, mem, detected_language, ran,
                   output>>
    /\ UNCHANGED inputVars
    /\ UNCHANGED planVars

(* ---- detect_language, lines 186-188: load_audio, then unlink ---- *)
LoadSegmentAudio ==
    /\ pc = "load_segment"
    /\ tmpfiles' = tmpfiles \ {iteration}
    /\ pc' = "infer"
    /\ UNCHANGED <<err, language, language_detection_max_tries, segments_starts,
                   iteration, history, detection, mem, detected_language, ran,
                   output>>
    /\ UNCHANGED inputVars
    /\ UNCHANGED planVars

(* ---- detect_language, lines 190-199: one language-id inference ---- *)
Infer ==
    /\ pc = "infer"
    /\ \E l \in Languages, p \in Probs :
          history' = Append(history, [language |-> l, probability |-> p,
                                      start_ms |-> segments_starts[iteration]])
    /\ pc' = "detect_release"
    /\ UNCHANGED <<err, language, language_detection_max_tries, segments_starts,
                   iteration, detection, mem, tmpfiles, detected_language, ran,
                   output>>
    /\ UNCHANGED inputVars
    /\ UNCHANGED planVars

(* ---- detect_language, lines 201-203 ---- *)
DetectRelease ==
    /\ pc = "detect_release"
    /\ \E freed \in BOOLEAN : mem' = ReleaseModel(mem, freed)
    /\ pc' = "detect_decide"
    /\ UNCHANGED <<err, language, language_detection_max_tries, segments_starts,
                   iteration, history, detection, tmpfiles, detected_language,
                   ran, output>>
    /\ UNCHANGED inputVars
    /\ UNCHANGED planVars

(* ---- detect_language, lines 205-210, and predict, lines 119-126 ---- *)
DetectReturn ==
    /\ pc = "detect_decide"
    /\ DetectStop(Last(history).probability, language_detection_min_prob,
                  iteration, language_detection_max_tries)
    /\ detection' = [language |-> Last(history).language,
                     probability |-> Last(history).probability,
                     iterations |-> iteration]
    /\ language' = Last(history).language
    /\ pc' = "asr_load"
    /\ UNCHANGED <<err, language_detection_max_tries, segments_starts,
                   iteration, history, mem, tmpfiles, detected_language, ran,
                   output>>
    /\ UNCHANGED inputVars
    /\ UNCHANGED planVars

(* ---- detect_language, lines 212-213: recurse with iteration + 1 ---- *)
DetectRecurse ==
    /\ pc = "detect_decide"
    /\ ~DetectStop(Last(history).probability, language_detection_min_prob,
                   iteration, language_detection_max_tries)
    /\ iteration' = iteration + 1
    /\ pc' = "detect_load"
    /\ UNCHANGED <<err, language, language_detection_max_tries, segments_starts,
                   history, detection, mem, tmpfiles, detected_language, ran,
                   output>>
    /\ UNCHANGED inputVars
    /\ UNCHANGED planVars

(* ---- predict, lines 130-131: whisperx.load_model ---- *)
LoadModel ==
    /\ pc = "asr_load"
    /\ mem' = [mem EXCEPT !.model = Block("asr", 0)]
    /\ pc' = "asr_audio"
    /\ UNCHANGED <<err, language, language_detection_max_tries, segments_starts,
                   iteration, history, detection, tmpfiles, detected_language, ran, output>>
    /\ UNCHANGED inputVars
    /\ UNCHANGED planVars

(* ---- predict, line 139: whisperx.load_audio ---- *)
LoadAudio ==
    /\ pc = "asr_audio"
    /\ pc' = "transcribe"
    /\ UNCHANGED <<err, language, language_detection_max_tries, segments_starts,
                   iteration, history, detection, tmpfiles, mem, detected_language, ran, output>>
    /\ UNCHANGED inputVars
    /\ UNCHANGED planVars

(* ---- predict, lines 147-148: model.transcribe ---- *)
Transcribe ==
    /\ pc = "transcribe"
    /\ detected_language' = language
    /\ pc' = "asr_release"
    /\ UNCHANGED <<err, language, language_detection_max_tries, segments_starts,
                   iteration, history, detection, tmpfiles, mem, ran, output>>
    /\ UNCHANGED inputVars
    /\ UNCHANGED planVars

(* ---- predict, lines 154-156 ---- *)
ReleaseAsrModel ==
    /\ pc = "asr_release"
    /\ \E freed \in BOOLEAN : mem' = ReleaseModel(mem, freed)
    /\ pc' = "gate"
    /\ UNCHANGED <<err, language, language_detection_max_tries, segments_starts,
                   iteration, history, detection, tmpfiles, detected_language, ran, output>>
    /\ UNCHANGED inputVars
    /\ UNCHANGED planVars

(* ---- predict, lines 158-162 ---- *)
EnterGate ==
    /\ pc = "gate"
    /\ ran' = IF Gate(detected_language, align_output, diarization) = "align_load" THEN ran \cup {"align"}
               ELSE IF Gate(detected_language, align_output, diarization) = "diarize_load" THEN ran \cup {"diarize"}
               ELSE ran
    /\ pc' = Gate(detected_language, align_output, diarization)
    /\ UNCHANGED <<err, language, language_detection_max_tries, segments_starts,
                   iteration, history, detection, tmpfiles, mem, detected_language, output>>
    /\ UNCHANGED inputVars
    /\ UNCHANGED planVars

(* ---- align, line 271: whisperx.load_align_model ---- *)
AlignLoadModel ==
    /\ pc = "align_load"
    /\ mem' = [mem EXCEPT !.model = Block("align", 0)]
    /\ pc' = "align_run"
    /\ UNCHANGED <<err, language, language_detection_max_tries, segments_starts,
                   iteration, history, detection, tmpfiles, detected_language, ran, output>>
    /\ UNCHANGED inputVars
    /\ UNCHANGED planVars

(* ---- align, lines 272-273: whisperx.align ---- *)
AlignRun ==
    /\ pc = "align_run"
    /\ pc' = "align_release"
    /\ UNCHANGED <<err, language, language_detection_max_tries, segments_starts,
                   iteration, history, detection, tmpfiles, mem, detected_language, ran, output>>
    /\ UNCHANGED inputVars
    /\ UNCHANGED planVars

(* ---- align, lines 279-283 ---- *)
AlignRelease ==
    /\ pc = "align_release"
    /\ \E freed \in BOOLEAN : mem' = ReleaseModel(mem, freed)
    /\ pc' = "return"
    /\ UNCHANGED <<err, language, language_detection_max_tries, segments_starts,
                   iteration, history, detection, tmpfiles, detected_language, ran, output>>
    /\ UNCHANGED inputVars
    /\ UNCHANGED planVars

(* ---- diarize, lines 289-290: whisperx.DiarizationPipeline ---- *)
DiarizeLoadModel ==
    /\ pc = "diarize_load"
    /\ mem' = [mem EXCEPT !.model = Block("diarize", 0)]
    /\ pc' = "diarize_run"
    /\ UNCHANGED <<err, language, language_detection_max_tries, segments_starts,
                   iteration, history, detection, tmpfiles, detected_language, ran, output>>
    /\ UNCHANGED inputVars
    /\ UNCHANGED planVars

(* ---- diarize, lines 291-293: pipeline call and assign_word_speakers ---- *)
DiarizeRun ==
    /\ pc = "diarize_run"
    /\ pc' = "diarize_release"
    /\ UNCHANGED <<err, language, language_detection_max_tries, segments_starts,
                   iteration, history, detection, tmpfiles, mem, detected_language, ran, output>>
    /\ UNCHANGED inputVars
    /\ UNCHANGED planVars

(* ---- diarize, lines 299-303 ---- *)
DiarizeRelease ==
    /\ pc = "diarize_release"
    /\ \E freed \in BOOLEAN : mem' = ReleaseModel(mem, freed)
    /\ pc' = "return"
    /\ UNCHANGED <<err, language, language_detection_max_tries, segments_starts,
                   iteration, history, detection, tmpfiles, detected_language, ran, output>>
    /\ UNCHANGED inputVars
    /\ UNCHANGED planVars

(* ---- predict, lines 167-170: ModelOutput ---- *)
Return ==
    /\ pc = "return"
    /\ output' = TRUE
    /\ pc' = "done"
    /\ UNCHANGED <<err, language, language_detection_max_tries, segments_starts,
                   iteration, history, detection, tmpfiles, mem, detected_language, ran>>
    /\ UNCHANGED inputVars
    /\ UNCHANGED planVars

(* ---- an external call raises; nothing catches it (no try/finally) ---- *)
\* positions at which the pending step is a call into an external library
FailablePcs == {"detect_load", "extract_open", "extract_export", "load_segment",
                "infer", "asr_load", "asr_audio", "transcribe", "align_load",
                "align_run", "diarize_load", "diarize_run"}

\* get_audio_duration (line 103) is called only on the detection branch
CanFail == pc \in FailablePcs \/ (pc = "start" /\ language = None)

ExternalFailure ==
    /\ CanFail
    /\ pc' = "failed"
    /\ err' = "external"
    \* line 226 has created the file (delete=False) when export raises
    /\ tmpfiles' = IF pc = "extract_export" THEN tmpfiles \cup {iteration} ELSE tmpfiles
    /\ UNCHANGED <<language, language_detection_max_tries, segments_starts,
                   iteration, history, detection, mem, detected_language, ran,
                   output>>
    /\ UNCHANGED inputVars
    /\ UNCHANGED planVars

Next == ExternalFailure \/ GetAudioDuration \/ PredictDetectBranch
        \/ PredictGivenLanguage \/ DetectLoadModel
        \/ DetectSelectOffset \/ DetectIndexError \/ ExtractOpen
        \/ ExtractExport \/ LoadSegmentAudio \/ Infer \/ DetectRelease
        \/ DetectReturn \/ DetectRecurse \/ LoadModel \/ LoadAudio
        \/ Transcribe \/ ReleaseAsrModel \/ EnterGate \/ AlignLoadModel
        \/ AlignRun \/ AlignRelease \/ DiarizeLoadModel \/ DiarizeRun
        \/ DiarizeRelease \/ Return

Spec == Init /\ [][Next]_vars

(* ------------------------------ SpecPlan ------------------------------- *)

IdlePredict ==
    /\ pc = "idle"
    /\ err = "none"
    /\ audio_duration = 0
    /\ language = None
    /\ language_detection_min_prob = 0
    /\ requested_tries = 0
    /\ language_detection_max_tries = 0
    /\ align_output = FALSE
    /\ diarization = FALSE
    /\ segments_starts = <<>>
    /\ iteration = 0
    /\ history = <<>>
    /\ detection = NoDetection
    /\ mem = [model |-> NoModel, unreachable |-> {}, cache |-> {}]
    /\ tmpfiles = {}
    /\ detected_language = None
    /\ ran = {}
    /\ output = FALSE

InitPlan ==
    /\ IdlePredict
    /\ plan_pc = "call"
    /\ plan_in \in PlanTotals \X PlanSegs \X PlanIters
    /\ plan_out = <<>>

PlanCall ==
    /\ plan_pc = "call"
    /\ plan_out' = distribute_segments_equally(plan_in[1], plan_in[2], plan_in[3])
    /\ plan_pc' = "returned"
    /\ UNCHANGED plan_in
    /\ UNCHANGED predictVars

NextPlan == PlanCall

SpecPlan == InitPlan /\ [][NextPlan]_vars

(* ------------------------------ properties ----------------------------- *)

PlanReturned == plan_pc = "returned"
total_in == plan_in[1]
segments_in == plan_in[2]
iterations_in == plan_in[3]

\* the detector has been entered in this run
DetectorEntered == iteration >= 1
Terminated == pc \in {"done", "failed"}

\* C1: detect_language returns at the smallest iteration k whose probability
\* meets min_probability or with k >= max_iterations; it returns that
\* iteration's language and probability and the count k, has evaluated
\* exactly the windows 1..k, and window j was cut at offsets[j-1].
C1_FirstGoodEnoughElseLast ==
    /\ \A j \in 1..Len(history) : history[j].start_ms = segments_starts[j]
    /\ detection # NoDetection =>
         LET k == detection.iterations
         IN  /\ k >= 1
             /\ Len(history) = k
             /\ detection.language = history[k].language
             /\ detection.probability = history[k].probability
             /\ \/ history[k].probability >= language_detection_min_prob
                \/ k >= language_detection_max_tries
             /\ \A j \in 1..(k - 1) :
                   /\ history[j].probability < language_detection_min_prob
                   /\ j < language_detection_max_tries

\* a run that exhausted its tries and returned the last window although an
\* earlier window had a higher probability
C1_Witness ==
    /\ detection # NoDetection
    /\ detection.iterations >= 2
    /\ detection.probability < language_detection_min_prob
    /\ \E j \in 1..(detection.iterations - 1) :
          history[j].probability > detection.probability

\* C2: with total_duration >= segments_duration and iterations > 1 the last
\* planned offset is total_duration - segments_duration and every offset
\* lies in [0, total_duration - segments_duration].
C2_LastOffsetEndAligned ==
    (PlanReturned /\ total_in >= segments_in /\ iterations_in > 1) =>
        /\ Len(plan_out) >= 1
        /\ Last(plan_out) = total_in - segments_in
        /\ \A j \in 1..Len(plan_out) :
              0 <= plan_out[j] /\ plan_out[j] <= total_in - segments_in

\* plan(100000, 30000, 3) = [0, 35000, 70000]
C2_Witness ==
    /\ PlanReturned
    /\ plan_in = <<100000, 30000, 3>>
    /\ plan_out = <<0, 35000, 70000>>

\* C3: the detector's iteration (its recursion depth) never exceeds the
\* clamped language_detection_max_tries it was handed, and it never ends
\* in an index error.
C3_IterationsBounded ==
    DetectorEntered =>
        /\ iteration <= language_detection_max_tries
        /\ err # "IndexError"

\* C4: with language absent and the default options, on any positive
\* duration, the clamped try count is at least 1 and the detector's read
\* of segments_starts[iteration - 1] is inside the planned offsets.
C4_DefaultsDetectOnShortClip ==
    (/\ DetectorEntered
     /\ requested_tries = DefaultMaxTries
     /\ language_detection_min_prob = DefaultMinProb
     /\ audio_duration > 0) =>
        /\ language_detection_max_tries >= 1
        /\ iteration <= Len(segments_starts)
        /\ err # "IndexError"

Supported == detected_language \in DEFAULT_ALIGN_MODELS
PastGate == pc \in {"align_load", "align_run", "align_release", "diarize_load",
                    "diarize_run", "diarize_release", "return", "done"}

\* C5: alignment and diarization never both run; once the run is past the
\* check of lines 158-162, align has run iff align_output and the language
\* is supported, and diarize has run iff align_output is false, diarization
\* is true and the language is supported.
C5_AlignDiarizeExclusive ==
    /\ ~({"align", "diarize"} \subseteq ran)
    /\ "align" \in ran => (align_output /\ Supported)
    /\ "diarize" \in ran => (~align_output /\ diarization /\ Supported)
    /\ PastGate =>
         /\ "align" \in ran <=> (align_output /\ Supported)
         /\ "diarize" \in ran <=> (~align_output /\ diarization /\ Supported)

\* both options requested: the completed run aligned and did not diarize
C5_Witness ==
    /\ pc = "done"
    /\ align_output /\ diarization
    /\ ran = {"align"}

\* C6: after any run, completed or failed, no temporary slice is on disk
\* and no model is held.
C6_NoResidueAfterRun ==
    Terminated =>
        /\ tmpfiles = {}
        /\ mem.model = NoModel

\* C7: with total_duration >= segments_duration and iterations = 1 the
\* planner returns exactly [0].
C7_SingleWindowAtZero ==
    (PlanReturned /\ total_in >= segments_in /\ iterations_in = 1) =>
        plan_out = <<0>>

\* plan(100000, 30000, 1) = [0]
C7_Witness ==
    /\ PlanReturned
    /\ plan_in = <<100000, 30000, 1>>
    /\ plan_out = <<0>>

\* C8: with iterations >= 1 and total_duration >= segments_duration the
\* planner returns exactly `iterations` offsets in non-decreasing order.
C8_OffsetsMonotone ==
    (PlanReturned /\ total_in >= segments_in /\ iterations_in >= 1) =>
        /\ Len(plan_out) = iterations_in
        /\ \A j \in 1..(Len(plan_out) - 1) : plan_out[j] <= plan_out[j + 1]

\* spacing 0: duplicate early offsets before a forced, larger final offset
C8_Witness ==
    /\ PlanReturned
    /\ iterations_in >= 3
    /\ total_in - segments_in < iterations_in - 1
    /\ plan_out[1] = plan_out[2]
    /\ Last(plan_out) > plan_out[2]

\* C9: whenever a stage's model is constructed, the memory of every
\* earlier stage's model has been reclaimed.
C9_ReclaimedBeforeNextStage ==
    mem.model # NoModel => (mem.unreachable \cup mem.cache) = {}

\* C10: with the try count clamped by predict to at least 1, the planned
\* windows are one per try, consecutive offsets are at least one window
\* apart, and every window lies inside the audio.
C10_WindowsDisjointInsideAudio ==
    (DetectorEntered /\ language_detection_max_tries >= 1) =>
        /\ Len(segments_starts) = language_detection_max_tries
        /\ \A j \in 1..(Len(segments_starts) - 1) :
              segments_starts[j + 1] - segments_starts[j] >= segments_duration_ms
        /\ \A j \in 1..Len(segments_starts) :
              /\ 0 <= segments_starts[j]
              /\ segments_starts[j] + segments_duration_ms <= audio_duration

\* the clamp cut the requested tries on an audio that is off the window grid
C10_Witness ==
    /\ DetectorEntered
    /\ Len(segments_starts) >= 2
    /\ requested_tries > Len(segments_starts)
    /\ audio_duration % segments_duration_ms # 0
====
